---- MODULE Spec2Model ----
(***************************************************************************)
(* TrimReport (empyricalRMT/rmt/trim.py): the iterative edge trimming of a *)
(* sorted eigenvalue spectrum, the report of unfoldings across the trims,  *)
(* and the selection of the best smoothers.                                *)
(*                                                                         *)
(* Conventions.  Python arrays are 0-based, TLA+ sequences 1-based: the    *)
(* operators that return or take Python positions (find_first, find_last,  *)
(* range) keep the 0-based values of the code, and PyAt converts.          *)
(* Percentages of the report (100 * k / len(eigs)) are kept as the point   *)
(* count k: for one spectrum the map k |-> 100 * k / len(eigs) is strictly *)
(* increasing, so sums and comparisons of counts are those of the          *)
(* percentages.  max_trim is the fraction num/den kept as <<num, den>>.    *)
(***************************************************************************)
EXTENDS Integers, Sequences, FiniteSets, TLC

VARIABLES
    untrimmed,      \* self._untrimmed: the sorted eigenvalues
    max_trim,       \* argument max_trim of __init__, <<num, den>>
    max_iters,      \* argument max_iters of __init__
                    \* (arguments and locals are live until __init__ ends)
    smoother,       \* the Smoother oracle in force (deterministic, external)
    iter_results,   \* local iter_results of __get_trim_iters
    iters_run,      \* local iters_run of __get_trim_iters
    labels_,        \* hb.labels_ of the running iteration, << >> outside the loop
    hb_error,       \* TRUE once hb.fit has raised
    trim_steps,     \* self._trim_steps, << >> while unset
    unfold_info,    \* self._unfold_info, << >> while None
    all_unfolds,    \* self._all_unfolds, << >> while None
    result,         \* value returned by the last public method call
    pc              \* "loop": at the while head; "return": the loop is left;
                    \* "ready": constructed; "raised": __init__ raised

vars == <<untrimmed, max_trim, max_iters, smoother, iter_results, iters_run,
          labels_, hb_error, trim_steps, unfold_info, all_unfolds, result, pc>>

-----------------------------------------------------------------------------
(* Bounds of the model *)

\* longest spectrum
MaxN == 4
\* largest max_iters argument
MaxItersBound == 2
\* most rows of a report table drawn directly (SpecSummary)
MaxRows == 3

\* max_trim arguments: values in (0,1)
MaxTrims == {<<1, 4>>, <<1, 2>>, <<3, 4>>}

\* Sorted spectra up to order and equality of neighbours, which is all the
\* code reads of the values: repeated eigenvalues included.
Spectra ==
    UNION { { s \in [1..n -> 1..n] :
                /\ s[n] = n
                /\ \A i \in 1..(n - 1) : s[i + 1] - s[i] \in {0, 1} }
            : n \in 2..MaxN }

-----------------------------------------------------------------------------
(* Python and utility helpers *)

\* arr[i] for a Python position i, negative positions counted from the end
PyAt(i, n) == IF i < 0 THEN n + i + 1 ELSE i + 1

Last(s) == s[Len(s)]

\* utils.find_first: 0-based position of the first element equal to value, -1 if none
find_first(arr, value) ==
    IF \E i \in 1..Len(arr) : arr[i] = value
    THEN (CHOOSE i \in 1..Len(arr) :
             /\ arr[i] = value
             /\ \A j \in 1..(i - 1) : arr[j] # value) - 1
    ELSE -1

\* utils.find_last: 0-based position of the last element equal to value, -1 if none
find_last(arr, value) ==
    IF \E i \in 1..Len(arr) : arr[i] = value
    THEN (CHOOSE i \in 1..Len(arr) :
             /\ arr[i] = value
             /\ \A j \in (i + 1)..Len(arr) : arr[j] # value) - 1
    ELSE -1

\* for i in range(start, stop): arr[i] = False
ClearRange(arr, start, stop) ==
    [j \in 1..Len(arr) |->
        IF \E i \in start..(stop - 1) : PyAt(i, Len(arr)) = j THEN FALSE ELSE arr[j]]

RECURSIVE FilterBy(_, _)
\* boolean-mask selection s[keep] of pandas / numpy
FilterBy(s, keep) ==
    IF s = << >> THEN << >>
    ELSE (IF Head(keep) THEN <<Head(s)>> ELSE << >>) \o FilterBy(Tail(s), Tail(keep))

-----------------------------------------------------------------------------
(* __get_trim_iters *)

IsInlier(df) == [i \in 1..Len(df.cluster) |-> df.cluster[i] = "inlier"]

\* zeroth iteration: the full set of values, none considered outliers
FirstResult(eigs) ==
    [eigs    |-> eigs,
     index   |-> [i \in 1..Len(eigs) |-> i],
     cluster |-> [i \in 1..Len(eigs) |-> "inlier"]]

\* df = iter_results[-1].copy(deep=True); df = df[df["cluster"] == "inlier"]
InlierFrame(df) ==
    [eigs    |-> FilterBy(df.eigs, IsInlier(df)),
     index   |-> FilterBy(df.index, IsInlier(df)),
     cluster |-> FilterBy(df.cluster, IsInlier(df))]

\* mutation of LoopCond: the iteration limit is not tested
LoopCondNoLimit(results, run) ==
    Len(Last(results).eigs) * max_trim[2] > max_trim[1] * Len(untrimmed)

\* while (len(iter_results[-1]) / len(eigs)) > max_trim and iters_run < max_iters
LoopCond(results, run) ==
    /\ Len(Last(results).eigs) * max_trim[2] > max_trim[1] * Len(untrimmed)
    /\ run < max_iters

\* mutation of EdgeCorrect: the detector's labels are used as they come
EdgeCorrectNone(is_outlier) == is_outlier

\* "check we haven't removed middle values"
EdgeCorrect(is_outlier) ==
    LET n == Len(is_outlier)
        a == IF is_outlier[1]
             THEN ClearRange(is_outlier, find_first(is_outlier, FALSE), n)
             ELSE is_outlier
        b == IF a[n] THEN ClearRange(a, 0, find_last(a, FALSE)) ELSE a
    IN  IF ~b[1] /\ ~b[n] THEN [i \in 1..n |-> FALSE] ELSE b

\* df["cluster"] = ["outlier" if label else "inlier" for label in is_outlier]
Relabel(df, is_outlier) ==
    [df EXCEPT !.cluster =
        [i \in 1..Len(is_outlier) |-> IF is_outlier[i] THEN "outlier" ELSE "inlier"]]

\* mutation of AppendResult: the labels are written through to the last
\* snapshot instead of to a deep copy of it
AppendResultShared(results, is_outlier) ==
    LET prev == Last(results)
        mask == IsInlier(prev)
        pos  == [i \in 1..Len(mask) |-> Cardinality({j \in 1..i : mask[j]})]
        through == [prev EXCEPT !.cluster =
                       [i \in 1..Len(mask) |->
                           IF mask[i] /\ is_outlier[pos[i]] THEN "outlier"
                           ELSE prev.cluster[i]]]
    IN  Append([results EXCEPT ![Len(results)] = through],
               Relabel(InlierFrame(prev), is_outlier))

\* one loop body up to iter_results.append(df)
AppendResult(results, is_outlier) ==
    Append(results, Relabel(InlierFrame(Last(results)), is_outlier))

-----------------------------------------------------------------------------
(* The Smoother oracle (empyricalRMT.rmt.smoother) and __evaluate_unfolding *)

\* Column names of fit_all for the smoothing arguments.  The default lists of
\* polynomial degrees and spline parameters are cut to one polynomial degree;
\* gompertz adds its column.
SmootherNames == {"poly_3", "gompertz"}

Smoothers == [SmootherNames -> {2, MaxN}]

fit_all_names(gompertz) == {"poly_3"} \cup (IF gompertz THEN {"gompertz"} ELSE {})

\* Smoother(trimmed).fit_all(...): one unfolded column per configuration.  A
\* column is kept as the configuration and the eigenvalues it unfolds, with
\* the deviation of its spacings from the GOE values, which the column
\* determines.  The oracle is deterministic; the model fixes it at Init out
\* of the family "configuration c fits best when smoother[c] points are kept",
\* with the best fit either at two points or at the longest spectrum.
fit_all(trimmed, names) ==
    [c \in names |->
        [smoother  |-> c,
         eigs      |-> trimmed,
         deviation |-> Len(trimmed) - smoother[c]]]

\* __evaluate_unfolding: score = var_norm + mean_weight * mean_norm, zero is best
evaluate_unfolding(unfolded) == unfolded.deviation

\* The body of __unfold_across_trims: the report rows and the unfoldings kept
UnfoldAcrossTrims(trims, names) ==
    LET eigs == untrimmed
        row(i) ==
            LET trimmed == trims[i].eigs
                lower_trim_length == find_first(eigs, trimmed[1])
                upper_trim_length == Len(eigs) - 1 - find_last(eigs, Last(trimmed))
                unfolds == fit_all(trimmed, names)
            IN  [trim_percent |-> Len(eigs) - Len(trimmed),
                 trim_low     |-> lower_trim_length,
                 trim_high    |-> upper_trim_length,
                 score        |-> [c \in names |-> evaluate_unfolding(unfolds[c])]]
    IN  [report  |-> [i \in 1..Len(trims) |-> row(i)],
         unfolds |-> fit_all(Last(trims).eigs, names)]

-----------------------------------------------------------------------------
(* summarize_trim_unfoldings *)

Abs(x) == IF x < 0 THEN -x ELSE x

Columns(report) == DOMAIN report[1].score

Min(S) == CHOOSE x \in S : \A y \in S : x <= y

\* mutation of MinScore: the sign of the scores is kept
MinScoreSigned(report, c) == Min({report[i].score[c] : i \in 1..Len(report)})

\* scores.abs().min()[c]
MinScore(report, c) == Min({Abs(report[i].score[c]) : i \in 1..Len(report)})

\* report[[c]].abs().idxmin(): the first row of the smallest absolute score
IdxMin(report, c) ==
    CHOOSE i \in 1..Len(report) :
        /\ \A j \in 1..Len(report) : Abs(report[i].score[c]) <= Abs(report[j].score[c])
        /\ \A j \in 1..(i - 1) : Abs(report[j].score[c]) # Abs(report[i].score[c])

Top(cols) == IF Cardinality(cols) < 3 THEN Cardinality(cols) ELSE 3

\* The orders sort_values()[:3] may give for the keys key[c]: the default
\* sort is not stable, so equal keys come in any order.
SortedTop(cols, key) ==
    { rk \in [1..Top(cols) -> cols] :
        /\ \A i, j \in 1..Top(cols) : i < j => rk[i] # rk[j] /\ key[rk[i]] <= key[rk[j]]
        /\ \A c \in cols :
              (\A i \in 1..Top(cols) : rk[i] # c) =>
                  \A i \in 1..Top(cols) : key[rk[i]] <= key[c] }

\* set(score_cols[np.argsort(key)[:3]]): the sets an unstable argsort may give
TopSet(cols, key) ==
    { S \in SUBSET cols :
        /\ Cardinality(S) = Top(cols)
        /\ \A a \in S : \A b \in cols \ S : key[a] <= key[b] }

AbsColumn(report, c) == [i \in 1..Len(report) |-> Abs(report[i].score[c])]

RECURSIVE SumSeq(_)
SumSeq(s) == IF s = << >> THEN 0 ELSE Head(s) + SumSeq(Tail(s))

\* scores.mean(), times the row count
MeanScore(report, c) == SumSeq(AbsColumn(report, c))

\* scores.median(), times two
MedianScore(report, c) ==
    LET s == SortSeq(AbsColumn(report, c), LAMBDA x, y : x < y)
        n == Len(s)
    IN  IF n % 2 = 1 THEN 2 * s[(n + 1) \div 2] ELSE s[n \div 2] + s[n \div 2 + 1]

\* best_smoothers[i] = report[cols].iloc[min_score_i, :]
BestSmoother(report, col) ==
    LET min_score_i == IdxMin(report, col)
    IN  [col          |-> col,
         row          |-> min_score_i,
         trim_percent |-> report[min_score_i].trim_percent,
         trim_low     |-> report[min_score_i].trim_low,
         trim_high    |-> report[min_score_i].trim_high,
         score        |-> report[min_score_i].score[col]]

\* The triple returned for one outcome of the three sorts
Summary(report, unfolds, best_smoother_cols, consistent) ==
    [kind           |-> "summary",
     best_smoothers |-> [i \in DOMAIN best_smoother_cols |->
                            BestSmoother(report, best_smoother_cols[i])],
     best_unfoldeds |-> [i \in DOMAIN best_smoother_cols |->
                            unfolds[best_smoother_cols[i]]],
     consistent     |-> consistent]

-----------------------------------------------------------------------------
(* The object: constructor, then the public methods *)

NoResult == [kind |-> "none"]

\* __init__ up to the first test of the while loop
Init ==
    /\ untrimmed \in Spectra
    /\ max_trim \in MaxTrims
    /\ max_iters \in 0..MaxItersBound
    /\ smoother \in Smoothers
    /\ iter_results = <<FirstResult(untrimmed)>>
    /\ iters_run = 0
    /\ labels_ = << >>
    /\ hb_error = FALSE
    /\ trim_steps = << >>
    /\ unfold_info = << >>
    /\ all_unfolds = << >>
    /\ result = NoResult
    /\ pc = "loop"

\* One pass of the while body, with the labels the detector gives
TrimIteration ==
    /\ pc = "loop"
    /\ LoopCond(iter_results, iters_run)
    /\ \E labels \in [1..Len(InlierFrame(Last(iter_results)).eigs) -> BOOLEAN] :
          LET is_outlier == EdgeCorrect(labels)
          IN  /\ labels_' = labels
              /\ iter_results' = AppendResult(iter_results, is_outlier)
              /\ iters_run' = iters_run + 1
              /\ pc' = IF \A i \in 1..Len(is_outlier) : ~is_outlier[i]
                       THEN "return"    \* if np.alltrue(~is_outlier): break
                       ELSE "loop"
    /\ UNCHANGED <<untrimmed, max_trim, max_iters, smoother, hb_error,
                   trim_steps, unfold_info, all_unfolds, result>>

\* The while test fails
LoopExit ==
    /\ pc = "loop"
    /\ ~LoopCond(iter_results, iters_run)
    /\ pc' = "return"
    /\ UNCHANGED <<untrimmed, max_trim, max_iters, smoother, iter_results,
                   iters_run, labels_, hb_error, trim_steps, unfold_info,
                   all_unfolds, result>>

\* return iter_results; self._trim_steps = ...; self.__unfold_across_trims():
\* the rest of __init__, after which its arguments and locals are gone
Construct ==
    LET u == UnfoldAcrossTrims(iter_results, fit_all_names(TRUE))
    IN  /\ trim_steps' = iter_results
        /\ unfold_info' = u.report
        /\ all_unfolds' = u.unfolds
        /\ iter_results' = << >>
        /\ iters_run' = 0
        /\ labels_' = << >>
        /\ max_trim' = <<0, 1>>
        /\ max_iters' = 0

Finish ==
    /\ pc = "return"
    /\ Construct
    /\ pc' = "ready"
    /\ UNCHANGED <<untrimmed, smoother, hb_error, result>>

\* mutation of DetectorRaises: the error is caught and the snapshots so far
\* are returned
DetectorRaisesCaught ==
    /\ pc = "loop"
    /\ LoopCond(iter_results, iters_run)
    /\ hb_error' = TRUE
    /\ iters_run' = iters_run + 1
    /\ pc' = "return"
    /\ UNCHANGED <<untrimmed, max_trim, max_iters, smoother, iter_results,
                   labels_, trim_steps, unfold_info, all_unfolds, result>>

\* hb.fit raises: nothing catches it, it leaves __get_trim_iters and __init__
DetectorRaises ==
    /\ pc = "loop"
    /\ LoopCond(iter_results, iters_run)
    /\ hb_error' = TRUE
    /\ iters_run' = iters_run + 1
    /\ pc' = "raised"
    /\ UNCHANGED <<untrimmed, max_trim, max_iters, smoother, iter_results,
                   labels_, trim_steps, unfold_info, all_unfolds, result>>

compare_trim_unfolds ==
    /\ pc = "ready"
    /\ \E gompertz \in BOOLEAN :
          LET u == UnfoldAcrossTrims(trim_steps, fit_all_names(gompertz))
          IN  /\ unfold_info' = u.report
              /\ all_unfolds' = u.unfolds
              /\ result' = [kind |-> "compare", report |-> u.report]
    /\ UNCHANGED <<untrimmed, max_trim, max_iters, smoother, iter_results,
                   iters_run, labels_, hb_error, trim_steps, pc>>

summarize_trim_unfoldings ==
    /\ pc = "ready"
    /\ LET report == unfold_info
           cols == Columns(report)
           min_scores == [c \in cols |-> MinScore(report, c)]
           median_scores == [c \in cols |-> MedianScore(report, c)]
           mean_scores == [c \in cols |-> MeanScore(report, c)]
       IN  \E best_smoother_cols \in SortedTop(cols, min_scores),
              consistent \in
                  { top_smoothers_mean \cap top_smoothers_median :
                        top_smoothers_mean \in TopSet(cols, mean_scores),
                        top_smoothers_median \in TopSet(cols, median_scores) } :
              result' = Summary(report, all_unfolds, best_smoother_cols, consistent)
    /\ UNCHANGED <<untrimmed, max_trim, max_iters, smoother, iter_results,
                   iters_run, labels_, hb_error, trim_steps, unfold_info,
                   all_unfolds, pc>>

\* The calls of plot_trim_steps that differ in outcome: <<mode, outfile>>
PlotCalls ==
    {<<"block", "None">>, <<"save", "None">>, <<"save", "path">>,
     <<"return", "None">>, <<"other", "None">>}

\* plot_trim_steps: one panel per trim step, then shown, saved or returned
plot_trim_steps ==
    /\ pc = "ready"
    /\ \E call \in PlotCalls :
          LET mode == call[1]
              outfile == call[2]
          IN
          result' =
            [kind   |-> "plot",
             panels |-> [i \in 1..Len(trim_steps) |->
                            Len(untrimmed) - Len(trim_steps[i].cluster)],
             outcome |->
                IF mode = "save"
                THEN (IF outfile = "None" THEN "ValueError" ELSE "saved")
                ELSE IF mode \in {"block", "noblock"} THEN "shown"
                ELSE IF mode = "return" THEN "returned"
                ELSE "ValueError"]
    /\ UNCHANGED <<untrimmed, max_trim, max_iters, smoother, iter_results,
                   iters_run, labels_, hb_error, trim_steps, unfold_info,
                   all_unfolds, pc>>

Next ==
    \/ TrimIteration
    \/ LoopExit
    \/ DetectorRaises
    \/ Finish
    \/ compare_trim_unfolds
    \/ summarize_trim_unfoldings
    \/ plot_trim_steps

Spec == Init /\ [][Next]_vars

\* The constructor is one synchronous call: it runs on until it returns or raises
FairSpec == Spec /\ WF_vars(TrimIteration \/ LoopExit \/ DetectorRaises \/ Finish)

-----------------------------------------------------------------------------
(* summarize_trim_unfoldings as a function of the report table alone *)

\* Column names of a table drawn directly, in table order
SummaryNames == <<"poly_3", "poly_4", "spline_1.0_3", "gompertz">>

\* Scores of a table drawn directly: the ideal score and a negative one
ScoreValues == {-1, 0}

\* A column's scores read as one number
ColumnCode(scores, c) ==
    SumSeq([i \in 1..Len(scores) |->
                (scores[i][c] - Min(ScoreValues)) * Cardinality(ScoreValues) ^ (i - 1)])

\* Report tables of r rows over the first k configurations, one table for each
\* multiset of columns: the function treats the columns alike, but for the
\* order of equal keys, which is left open.  Row i is the
\* report row of a spectrum of MaxRows points with i - 1 points cut from the
\* top; the unfoldings kept are those of the last row.
InitSummary ==
    /\ untrimmed = [i \in 1..MaxRows |-> i]
    /\ max_trim = <<0, 1>>
    /\ max_iters = 0
    /\ smoother = [c \in SmootherNames |-> MaxN]
    /\ iter_results = << >>
    /\ iters_run = 0
    /\ labels_ = << >>
    /\ hb_error = FALSE
    /\ trim_steps = << >>
    /\ \E r \in 1..MaxRows, k \in 1..Len(SummaryNames) :
          \E scores \in [1..r -> [{SummaryNames[j] : j \in 1..k} -> ScoreValues]] :
              /\ \A j \in 1..(k - 1) :
                    ColumnCode(scores, SummaryNames[j]) <=
                        ColumnCode(scores, SummaryNames[j + 1])
              /\ unfold_info =
                    [i \in 1..r |->
                        [trim_percent |-> i - 1,
                         trim_low     |-> 0,
                         trim_high    |-> i - 1,
                         score        |-> scores[i]]]
              /\ all_unfolds =
                    [c \in {SummaryNames[j] : j \in 1..k} |->
                        [smoother  |-> c,
                         eigs      |-> SubSeq(untrimmed, 1, MaxRows - r + 1),
                         deviation |-> scores[r][c]]]
    /\ result = NoResult
    /\ pc = "ready"

\* The function is applied once to each table
NextSummary == result = NoResult /\ summarize_trim_unfoldings

SpecSummary == InitSummary /\ [][NextSummary]_vars

-----------------------------------------------------------------------------
(* Properties *)

InlierCount(df) == Cardinality({i \in 1..Len(df.cluster) : df.cluster[i] = "inlier"})

HasOutlier(df) == \E i \in 1..Len(df.cluster) : df.cluster[i] = "outlier"

\* The snapshots the loop holds, or those the object keeps once constructed
Snapshots == IF pc = "ready" THEN trim_steps ELSE iter_results

\* The detector has answered for the pass that ran last
Labelled == pc \in {"loop", "return"} /\ Len(labels_) > 0

NoGap(cluster) ==
    \A a, b, c \in 1..Len(cluster) :
        (a < b /\ b < c /\ cluster[a] = "inlier" /\ cluster[c] = "inlier")
            => cluster[b] = "inlier"

\* C1: in every snapshot after the first the inliers are one contiguous run:
\* no point labelled outlier lies between two inliers, whatever the detector
\* returned.
C1_InliersContiguous ==
    \A k \in 2..Len(Snapshots) : NoGap(Snapshots[k].cluster)

\* The detector flagged an interior point between two unflagged ones, and the
\* snapshot made of its labels keeps an outlier at an end.
C1_Witness ==
    /\ Labelled
    /\ \E a, b, c \in 1..Len(labels_) :
          a < b /\ b < c /\ ~labels_[a] /\ labels_[b] /\ ~labels_[c]
    /\ HasOutlier(Last(iter_results))

InLeadingRun(i) == \A j \in 1..i : labels_[j]

InTrailingRun(i) == \A j \in i..Len(labels_) : labels_[j]

\* C2: when the detector of iteration 1 flags a leading run and a trailing
\* run, snapshot 1 labels the points of both runs outlier and every point
\* between them inlier.
C2_BothEndsLabelled ==
    (/\ Labelled
     /\ iters_run = 1
     /\ labels_[1]
     /\ labels_[Len(labels_)]
     /\ \E i \in 1..Len(labels_) : ~labels_[i])
    => \A i \in 1..Len(labels_) :
          iter_results[2].cluster[i] =
              IF InLeadingRun(i) \/ InTrailingRun(i) THEN "outlier" ELSE "inlier"

\* C3: every iteration that was started was started with the inlier count of
\* the then last snapshot, over the number of eigenvalues, above max_trim, and
\* with fewer than max_iters iterations run.
C3_StartedOnInlierRatio ==
    pc \in {"loop", "return", "raised"} =>
        \A k \in 1..iters_run :
            /\ InlierCount(iter_results[k]) * max_trim[2] > max_trim[1] * Len(untrimmed)
            /\ k - 1 < max_iters

\* C4: in every snapshot __get_trim_iters returns, the proportion of the
\* eigenvalues removed, 1 - inliers / all, is at most max_trim.
C4_TrimmedAtMostMaxTrim ==
    pc = "return" =>
        \A k \in 1..Len(iter_results) :
            (Len(untrimmed) - InlierCount(iter_results[k])) * max_trim[2]
                <= max_trim[1] * Len(untrimmed)

C5_Bound ==
    /\ pc \in {"loop", "return", "raised"} =>
          /\ iters_run <= max_iters
          /\ Len(iter_results) <= iters_run + 1
    /\ pc = "return" =>
          /\ 1 <= Len(iter_results)
          /\ Len(iter_results) <= max_iters + 1

\* C5: the trim loop ends, whatever the detector answers, after at most
\* max_iters iterations, and what it returns holds between 1 and
\* max_iters + 1 snapshots.
C5_Terminates == [](C5_Bound) /\ <>(pc \in {"ready", "raised"})

\* The loop returned after max_iters iterations, the last of which had every
\* point flagged by the detector.
C5_Witness ==
    /\ pc = "return"
    /\ max_iters >= 2
    /\ iters_run = max_iters
    /\ Len(iter_results) = max_iters + 1
    /\ Len(labels_) > 0
    /\ \A i \in 1..Len(labels_) : labels_[i]

\* C6 as claimed: an error of the detector ends the loop, which returns the
\* snapshots it has; the constructor does not raise.
C6_ErrorNotPropagated == hb_error => pc \in {"return", "ready"}

\* C6 as amended: an error of the detector is caught nowhere: it leaves
\* __get_trim_iters and __init__, no snapshots are returned and no report is
\* built.
C6_ErrorPropagates ==
    hb_error =>
        /\ pc = "raised"
        /\ trim_steps = << >>
        /\ unfold_info = << >>
        /\ all_unfolds = << >>

\* The detector raised in a later iteration, with snapshots accumulated
C6_Witness == hb_error /\ Len(iter_results) >= 2 /\ HasOutlier(Last(iter_results))

\* m is the least absolute score of column c of the report
LeastOf(report, c, m) ==
    /\ \E i \in 1..Len(report) : Abs(report[i].score[c]) = m
    /\ \A i \in 1..Len(report) : m <= Abs(report[i].score[c])

\* C7: the configurations summarised are the (up to) three of least minimum
\* absolute score, in ascending order of it, none above the minimum of a
\* configuration left out; the row summarised for each is the first row where
\* its absolute score is least.
C7_BestThreeRanked ==
    result.kind = "summary" =>
        LET report == unfold_info
            cols == DOMAIN report[1].score
            best == result.best_smoothers
            chosen == {best[i].col : i \in DOMAIN best}
        IN  /\ DOMAIN best = 1..(IF Cardinality(cols) < 3 THEN Cardinality(cols) ELSE 3)
            /\ chosen \subseteq cols
            /\ Cardinality(chosen) = Len(best)
            /\ \A i \in DOMAIN best :
                  /\ LeastOf(report, best[i].col, Abs(best[i].score))
                  /\ best[i].row \in 1..Len(report)
                  /\ report[best[i].row].score[best[i].col] = best[i].score
                  /\ \A r \in 1..(best[i].row - 1) :
                        Abs(report[r].score[best[i].col]) > Abs(best[i].score)
                  /\ best[i].trim_percent = report[best[i].row].trim_percent
                  /\ best[i].trim_low = report[best[i].row].trim_low
                  /\ best[i].trim_high = report[best[i].row].trim_high
            /\ \A i, j \in DOMAIN best :
                  i < j => Abs(best[i].score) <= Abs(best[j].score)
            /\ \A c \in cols \ chosen : \A i \in DOMAIN best :
                  \A r \in 1..Len(report) :
                      Abs(best[i].score) <= Abs(report[r].score[c])

\* A summary of four configurations, one left out with a strictly larger
\* minimum, the best one at its least in a later row than the first
C7_Witness ==
    /\ result.kind = "summary"
    /\ Cardinality(DOMAIN unfold_info[1].score) = 4
    /\ result.best_smoothers[1].row > 1
    /\ \E c \in DOMAIN unfold_info[1].score :
          /\ \A i \in 1..3 : result.best_smoothers[i].col # c
          /\ \A r \in 1..Len(unfold_info) :
                Abs(unfold_info[r].score[c]) > Abs(result.best_smoothers[3].score)

\* C8: the k-th column of best_unfoldeds is the unfolding, by the k-th ranked
\* configuration, of the trimmed spectrum of the report row summarised for
\* it, as long as the eigenvalues that row retains.
C8_BestUnfoldedsOfBestRows ==
    (pc = "ready" /\ trim_steps # << >> /\ result.kind = "summary") =>
        \A k \in DOMAIN result.best_smoothers :
            LET b == result.best_smoothers[k]
                u == result.best_unfoldeds[k]
            IN  /\ u.smoother = b.col
                /\ u.eigs = trim_steps[b.row].eigs
                /\ Len(u.eigs) = Len(untrimmed) - b.trim_percent

====
